---------------------------- MODULE Spec2Model ----------------------------
(***************************************************************************)
(* A model of scripts/postgres-data-loader.py: the DataLoader that reads a *)
(* flat CSV, extracts the reference entities, upserts them, fans every row *)
(* out into transaction / item / audio / video tuples and writes them in   *)
(* batches, one commit per batch.                                          *)
(*                                                                         *)
(* The database is modelled by what the SQL of the loader asks of it: a    *)
(* table is a bag of rows, ON CONFLICT (key) is resolved against the rows  *)
(* the connection sees, a connection sees its own uncommitted writes (tx)  *)
(* and commit / rollback publish or drop them.  Any statement may fail.    *)
(***************************************************************************)
EXTENDS Integers, Sequences, FiniteSets, Bags, TLC

(***************************************************************************)
(* Bounds of the model.                                                    *)
(***************************************************************************)
MaxRows == 3
MaxRuns == 2
MaxBatchSize == 2
MaxCalls == 3

(***************************************************************************)
(* Python's None, for nullable strings and for nullable surrogate ids.     *)
(***************************************************************************)
None == "<None>"
NoId == 0

(***************************************************************************)
(* Type coercions of the loader.  A result is [ok, v]: ok = FALSE is the   *)
(* ValueError Python raises.  Prices are integer cents.                    *)
(***************************************************************************)
Raise == [ok |-> FALSE, v |-> 0]
Val(x) == [ok |-> TRUE, v |-> x]

\* float(s) on the decimal strings of the input
float(s) ==
    CASE s = "42.00" -> Val(4200)
      [] s = "42.0"  -> Val(4200)
      [] s = "84.00" -> Val(8400)
      [] s = "45.00" -> Val(4500)
      [] s = "15.50" -> Val(1550)
      [] s = "14.60" -> Val(1460)
      [] s = "121.0" -> Val(12100)
      [] OTHER       -> Raise

\* int(s): decimal integers only; "", "true", "1.0" raise
int(s) ==
    CASE s = "0"  -> Val(0)
      [] s = "1"  -> Val(1)
      [] s = "2"  -> Val(2)
      [] s = "3"  -> Val(3)
      [] s = "9"  -> Val(9)
      [] s = "14" -> Val(14)
      [] s = "23" -> Val(23)
      [] s = "-1" -> Val(-1)
      [] OTHER    -> Raise

\* bool(n) of an integer
bool(n) == n # 0

\* truthiness of a string: '' is false
truthy(s) == s # ""

\* datetime.fromisoformat(s): the fields the loader reads
fromisoformat(s) ==
    CASE s = "2024-03-15T09:00:00" -> Val([day |-> 15, hour |-> 9,  weekday |-> "Friday"])
      [] s = "2024-03-30T14:00:00" -> Val([day |-> 30, hour |-> 14, weekday |-> "Saturday"])
      [] s = "2024-03-31T23:00:00" -> Val([day |-> 31, hour |-> 23, weekday |-> "Sunday"])
      [] s = "2024-02-29T09:00:00" -> Val([day |-> 29, hour |-> 9,  weekday |-> "Thursday"])
      [] s = "2023-02-28T14:00:00" -> Val([day |-> 28, hour |-> 14, weekday |-> "Tuesday"])
      [] OTHER -> [ok |-> FALSE, v |-> [day |-> 0, hour |-> 0, weekday |-> ""]]

\* needle in hay (substring), on the transcripts of the input
Contains(hay, needle) ==
    \/ needle = hay
    \/ <<hay, needle>> \in
         { <<"Pabili ng Alaska", "Alaska">>,
           <<"pabili ng alaska, 42 PESOS", "alaska">>,
           <<"may promo ba", "promo">> }

\* s.lower()
lower(s) ==
    CASE s = "pabili ng alaska, 42 PESOS" -> "pabili ng alaska, 42 pesos"
      [] s = "Pabili ng Alaska" -> "pabili ng alaska"
      [] OTHER -> s

\* 'pesos' in s.lower(), 'promo' in s.lower()
ContainsLower(s, word) ==
    \/ Contains(lower(s), word)
    \/ <<lower(s), word>> \in { <<"pabili ng alaska, 42 pesos", "pesos">> }

\* s.split('|')
split(s) ==
    CASE s = "shelf|person" -> <<"shelf", "person">>
      [] OTHER -> <<s>>


(***************************************************************************)
(* The input: flat CSV rows (csv.DictReader: every field a string).  The   *)
(* descriptive columns that are only copied through (store_type, region,   *)
(* province, city, barangay, economic_class, age_bracket, product_category,*)
(* product_subcat, weather) are left out.                                  *)
(***************************************************************************)
Base ==
    [ transaction_id |-> "T1", timestamp |-> "2024-03-15T09:00:00",
      store_id |-> "S1", store_name |-> "Aling Nena", latitude |-> "14.60",
      longitude |-> "121.0", customer_id |-> "C1", gender |-> "F",
      sku_id |-> "ALS001", brand_name |-> "Alaska", product_name |-> "Alaska Evap",
      quantity |-> "2", unit_price |-> "42.00", peso_value |-> "84.00",
      campaign_id |-> "", was_substituted |-> "0", original_request |-> "",
      audio_language |-> "tl", audio_transcript |-> "", video_objects |-> "",
      day_of_week |-> "Friday", hour_of_day |-> "9" ]

\* same brand and sku as Base; no customer, a known campaign, a substitution
RowSameSku ==
    [Base EXCEPT !.transaction_id = "T2", !.timestamp = "2024-03-30T14:00:00",
                 !.customer_id = "", !.campaign_id = "CAMP001",
                 !.was_substituted = "1", !.original_request = "Bear Brand",
                 !.audio_transcript = "Pabili ng Alaska",
                 !.video_objects = "shelf|person",
                 !.day_of_week = "Saturday", !.hour_of_day = "14"]

\* another brand, store and customer; a campaign id load_campaigns has no name for
RowOtherBrand ==
    [Base EXCEPT !.transaction_id = "T3", !.timestamp = "2024-03-31T23:00:00",
                 !.store_id = "S2", !.store_name = "Mang Jun",
                 !.customer_id = "C2", !.gender = "M",
                 !.sku_id = "BRB001", !.brand_name = "Bear Brand",
                 !.product_name = "Bear Brand 33g", !.quantity = "1",
                 !.unit_price = "15.50", !.peso_value = "15.50",
                 !.campaign_id = "CAMP999",
                 !.audio_transcript = "may promo ba",
                 !.day_of_week = "Sunday", !.hour_of_day = "23"]

\* a new sku whose unit_price does not parse
RowBadPrice ==
    [Base EXCEPT !.transaction_id = "T4", !.sku_id = "ALS002",
                 !.product_name = "Alaska Condensada", !.unit_price = "abc"]

\* a timestamp that is not ISO-8601
RowBadTimestamp ==
    [Base EXCEPT !.transaction_id = "T5", !.timestamp = "15/03/2024"]

Rows == {Base, RowSameSku, RowOtherBrand, RowBadPrice, RowBadTimestamp}

\* the sku, store and customer of Base, observed with other attributes
RowLaterObservation ==
    [Base EXCEPT !.transaction_id = "T6", !.brand_name = "Bear Brand",
                 !.product_name = "Alaska Evaporada", !.quantity = "1",
                 !.unit_price = "45.00", !.peso_value = "45.00",
                 !.store_name = "Nena Sari-Sari", !.latitude = "15.50",
                 !.longitude = "42.0", !.gender = "M"]

RECURSIVE SeqsUpTo(_, _)
SeqsUpTo(S, n) ==
    IF n = 0 THEN {<<>>}
    ELSE LET shorter == SeqsUpTo(S, n - 1)
         IN shorter \cup {Append(s, x) : s \in shorter, x \in S}

\* the CSV files of the model: 1 .. MaxRows rows
CsvFiles == SeqsUpTo(Rows, MaxRows) \ {<<>>}

\* files in which a key comes back with other attributes
CsvFilesRepeatedKeys == SeqsUpTo({Base, RowLaterObservation}, MaxRows) \ {<<>>}

\* the rows of the fanout: every combination of the fields it branches on
FanoutRows ==
    { [Base EXCEPT !.was_substituted = w, !.original_request = o,
                   !.audio_transcript = a, !.video_objects = vo,
                   !.campaign_id = c, !.customer_id = cu, !.timestamp = ts,
                   !.quantity = q, !.peso_value = pv,
                   !.day_of_week = dw, !.hour_of_day = h]
      : w \in {"0", "1", "2", "-1", "", "true"},
        o \in {"", "Bear Brand"},
        a \in {"", "Pabili ng Alaska", "pabili ng alaska, 42 PESOS"},
        vo \in {"", "shelf|person"},
        c \in {"", "CAMP001"},
        cu \in {"", "C1"},
        ts \in {"2024-03-15T09:00:00", "2024-03-30T14:00:00", "2024-03-31T23:00:00",
                "2024-02-29T09:00:00", "2023-02-28T14:00:00", "15/03/2024"},
        q \in {"1", "2"},
        pv \in {"42.00", "84.00"},
        dw \in {"Friday", "Sunday"},
        h \in {"9", "23"} }

(***************************************************************************)
(* A Python dict: insertion-ordered, a sequence of [k, v].                 *)
(***************************************************************************)
Keys(d) == {d[n].k : n \in DOMAIN d}
Get(d, key) == d[CHOOSE n \in DOMAIN d : d[n].k = key].v
\* an assignment without its "if": the last value wins
SetLast(d, key, val) ==
    IF key \in Keys(d)
    THEN [n \in DOMAIN d |-> IF d[n].k = key THEN [k |-> key, v |-> val] ELSE d[n]]
    ELSE Append(d, [k |-> key, v |-> val])

SetDefault(d, key, val) ==
    IF key \in Keys(d) THEN d ELSE Append(d, [k |-> key, v |-> val])

(***************************************************************************)
(* Fact fanout: the tuples load_transactions builds from one row.          *)
(* raised = TRUE is the ValueError of a coercion; nothing is appended then.*)
(***************************************************************************)
\* dict.get(key): None when absent
customer_get(customer_map, key) ==
    IF key \in DOMAIN customer_map THEN customer_map[key] ELSE NoId

\* the field copied as it is: '' where the row has no campaign
trans_campaign_id_raw(row) == row.campaign_id

\* row['campaign_id'] if row['campaign_id'] else None
trans_campaign_id(row) ==
    IF truthy(row.campaign_id) THEN row.campaign_id ELSE None

\* payday on the 15th, on the 30th and on the 31st
trans_is_payday_31(timestamp) == timestamp.day \in {15, 30, 31}

\* timestamp.day in [15, 30]
trans_is_payday(timestamp) == timestamp.day \in {15, 30}

trans_data(row, customer_map) ==
    [ transaction_id |-> row.transaction_id,
      timestamp |-> fromisoformat(row.timestamp).v,
      store_id |-> row.store_id,
      customer_id |-> customer_get(customer_map, row.customer_id),
      transaction_value |-> float(row.peso_value).v,
      final_amount |-> float(row.peso_value).v,
      units_total |-> int(row.quantity).v,
      day_of_week |-> row.day_of_week,
      hour_of_day |-> int(row.hour_of_day).v,
      is_payday |-> trans_is_payday(fromisoformat(row.timestamp).v),
      campaign_id |-> trans_campaign_id(row),
      influenced_by_campaign |-> truthy(row.campaign_id) ]

item_original_request(row) ==
    IF truthy(row.original_request) THEN row.original_request ELSE None

item_substitution_reason(row) ==
    IF row.was_substituted = "1" THEN "out_of_stock" ELSE None

item_data(row) ==
    [ transaction_id |-> row.transaction_id,
      sku_id |-> row.sku_id,
      quantity |-> int(row.quantity).v,
      unit_price |-> float(row.unit_price).v,
      total_price |-> float(row.peso_value).v,
      was_substituted |-> bool(int(row.was_substituted).v),
      original_request |-> item_original_request(row),
      substitution_reason |-> item_substitution_reason(row) ]

audio_data(row) ==
    [ transaction_id |-> row.transaction_id,
      audio_language |-> row.audio_language,
      full_transcript |-> row.audio_transcript,
      request_type |-> IF Contains(row.audio_transcript, row.brand_name)
                       THEN "branded" ELSE "generic",
      storeowner_influence |-> IF row.was_substituted = "1" THEN "high" ELSE "low",
      recommendation_given |-> bool(int(row.was_substituted).v),
      suggestion_accepted |-> bool(int(row.was_substituted).v),
      price_mentioned |-> ContainsLower(row.audio_transcript, "pesos"),
      promo_inquiry |-> ContainsLower(row.audio_transcript, "promo") ]

video_data(row) ==
    [ transaction_id |-> row.transaction_id,
      objects_detected |-> split(row.video_objects) ]

\* the append without its "if"
audio_appended_always(row) == <<audio_data(row)>>

\* if row['audio_transcript']: audio_batch.append(audio_data)
audio_appended(row) ==
    IF truthy(row.audio_transcript) THEN <<audio_data(row)>> ELSE <<>>

\* if row['video_objects']: video_batch.append(video_data)
video_appended(row) ==
    IF truthy(row.video_objects) THEN <<video_data(row)>> ELSE <<>>

\* the coercions of one loop iteration, any of which raises ValueError
row_raises(row) ==
    \/ ~fromisoformat(row.timestamp).ok
    \/ ~float(row.peso_value).ok
    \/ ~int(row.quantity).ok
    \/ ~int(row.hour_of_day).ok
    \/ ~float(row.unit_price).ok
    \/ ~int(row.was_substituted).ok

Fanout(row, customer_map) ==
    IF row_raises(row)
    THEN [raised |-> TRUE, trans |-> <<>>, item |-> <<>>, audio |-> <<>>, video |-> <<>>]
    ELSE [raised |-> FALSE,
          trans |-> <<trans_data(row, customer_map)>>,
          item |-> <<item_data(row)>>,
          audio |-> audio_appended(row),
          video |-> video_appended(row)]


(***************************************************************************)
(* The database.  A table is a bag of rows.  The unique indexes are the    *)
(* ones the loader's ON CONFLICT clauses name; transaction_items,          *)
(* audio_transcripts and video_signals are written by plain INSERT.        *)
(***************************************************************************)
views ==
    <<"mv_hourly_patterns", "mv_daily_sales", "mv_product_performance",
      "mv_regional_performance">>
ViewNames == {views[n] : n \in DOMAIN views}

EmptyDb ==
    [ brands |-> EmptyBag, products |-> EmptyBag, stores |-> EmptyBag,
      customers |-> EmptyBag, campaigns |-> EmptyBag,
      transactions |-> EmptyBag, transaction_items |-> EmptyBag,
      audio_transcripts |-> EmptyBag, video_signals |-> EmptyBag,
      refreshed |-> [v \in ViewNames |-> 0] ]

RowsOf(table) == BagToSet(table)
Count(table) == BagCardinality(table)
Conflicts(table, col, key) == {r \in RowsOf(table) : r[col] = key}

\* INSERT INTO table VALUES row
Insert(table, row) ==
    [table |-> table (+) SetToBag({row}), row |-> row]

\* the statement without its ON CONFLICT clause
PlainInsert(table, col, row, set) == Insert(table, row)

\* INSERT ... ON CONFLICT (col) DO UPDATE SET <set> = EXCLUDED.<set>
OnConflictDoUpdate(table, col, row, set) ==
    LET hit == Conflicts(table, col, row[col])
    IN  IF hit = {} THEN Insert(table, row)
        ELSE LET old == CHOOSE r \in hit : TRUE
                 new == [f \in DOMAIN old |-> IF f \in set THEN row[f] ELSE old[f]]
             IN  [table |-> (table (-) SetToBag({old})) (+) SetToBag({new}),
                  row |-> new]

\* INSERT ... ON CONFLICT (col) DO NOTHING
OnConflictDoNothing(table, col, row) ==
    IF Conflicts(table, col, row[col]) = {} THEN Insert(table, row)
    ELSE [table |-> table, row |-> row]

tbwa_clients == {"Alaska", "Marlboro", "Tide", "Coca-Cola", "Head & Shoulders"}

campaign_names ==
    [c \in {"CAMP001", "CAMP002", "CAMP003", "CAMP004"} |->
        CASE c = "CAMP001" -> "Summer Sarap 2024"
          [] c = "CAMP002" -> "Payday Promo March"
          [] c = "CAMP003" -> "New Variant Launch"
          [] c = "CAMP004" -> "Back to School"]

\* the brand INSERT without its ON CONFLICT clause
insert_brand_plain(table, brand_name, fresh) ==
    Insert(table, [brand_id |-> fresh, brand_name |-> brand_name,
                   is_tbwa_client |-> brand_name \in tbwa_clients])

\* load_brands' statement: upsert one brand, RETURNING brand_id
insert_brand(table, brand_name, fresh) ==
    OnConflictDoUpdate(table, "brand_name",
        [brand_id |-> fresh, brand_name |-> brand_name,
         is_tbwa_client |-> brand_name \in tbwa_clients],
        {"is_tbwa_client"})

\* the first n iterations of load_brands' loop over self.brands; the brand
\* id sequence stands at s before the first
RECURSIVE exec_brands(_, _, _, _)
exec_brands(table, d, s, n) ==
    IF n = 0 THEN [table |-> table, brands |-> d]
    ELSE LET p == exec_brands(table, d, s, n - 1)
             r == insert_brand(p.table, d[n].k, s + n)
         IN  [table |-> r.table,
              brands |-> [p.brands EXCEPT ![n].v = r.row.brand_id]]

\* load_products' data list
products_data(brandsd, productsd) ==
    [n \in DOMAIN productsd |->
        [sku_id |-> productsd[n].k,
         brand_id |-> Get(brandsd, productsd[n].v.brand_name),
         product_name |-> productsd[n].v.product_name,
         msrp |-> productsd[n].v.unit_price]]

RECURSIVE exec_products(_, _, _)
exec_products(table, data, n) ==
    IF n = 0 THEN table
    ELSE OnConflictDoUpdate(exec_products(table, data, n - 1), "sku_id",
                            data[n], {"product_name", "msrp"}).table

\* load_stores' pass over the CSV: the first row of each store_id;
\* raised when a latitude or longitude of such a row does not parse
RECURSIVE stores_data(_, _)
stores_data(rows, n) ==
    IF n = 0 THEN [raised |-> FALSE, data |-> <<>>]
    ELSE LET p == stores_data(rows, n - 1)
             row == rows[n]
         IN  IF p.raised \/ row.store_id \in Keys(p.data) THEN p
             ELSE IF ~float(row.latitude).ok \/ ~float(row.longitude).ok
                  THEN [p EXCEPT !.raised = TRUE]
                  ELSE [p EXCEPT !.data = Append(@,
                          [k |-> row.store_id,
                           v |-> [store_id |-> row.store_id,
                                  store_name |-> row.store_name,
                                  latitude |-> float(row.latitude).v,
                                  longitude |-> float(row.longitude).v]])]

RECURSIVE exec_stores(_, _, _)
exec_stores(table, data, n) ==
    IF n = 0 THEN table
    ELSE OnConflictDoUpdate(exec_stores(table, data, n - 1), "store_id",
                            data[n].v, {"store_name"}).table

\* load_customers' pass over the CSV: the first row of each non-empty customer_id
RECURSIVE customers_data(_, _)
customers_data(rows, n) ==
    IF n = 0 THEN <<>>
    ELSE LET p == customers_data(rows, n - 1)
             row == rows[n]
         IN  IF truthy(row.customer_id) /\ row.customer_id \notin Keys(p)
             THEN Append(p, [k |-> row.customer_id, v |-> [gender |-> row.gender]])
             ELSE p

\* the customers' surrogate key stands at s before the first statement
RECURSIVE exec_customers(_, _, _, _)
exec_customers(table, data, s, n) ==
    IF n = 0 THEN table
    ELSE OnConflictDoNothing(exec_customers(table, data, s, n - 1), "external_id",
            [customer_id |-> s + n, external_id |-> data[n].k,
             gender |-> data[n].v.gender]).table

\* load_campaigns' data: the campaigns seen that campaign_names knows.  A set
\* is iterated in no particular order; tables are bags, so any order will do.
RECURSIVE SetToSeq(_)
SetToSeq(S) ==
    IF S = {} THEN <<>>
    ELSE LET x == CHOOSE y \in S : TRUE IN <<x>> \o SetToSeq(S \ {x})

campaigns_data(campaignss) ==
    LET known == SetToSeq(campaignss \cap DOMAIN campaign_names)
    IN  [n \in DOMAIN known |->
            [campaign_id |-> known[n], campaign_name |-> campaign_names[known[n]]]]

RECURSIVE exec_campaigns(_, _, _)
exec_campaigns(table, data, n) ==
    IF n = 0 THEN table
    ELSE OnConflictDoNothing(exec_campaigns(table, data, n - 1), "campaign_id",
                             data[n]).table

\* SELECT external_id, customer_id FROM customers: dict(fetchall())
select_customer_map(table) ==
    [e \in {r.external_id : r \in RowsOf(table)} |->
        (CHOOSE r \in RowsOf(table) : r.external_id = e).customer_id]

\* the item statements issued ahead of the transaction statements
flush_statements_items_first(tb, ib, ab, vb) ==
    [n \in DOMAIN ib |-> [table |-> "transaction_items", row |-> ib[n]]]
    \o [n \in DOMAIN tb |-> [table |-> "transactions", row |-> tb[n]]]
    \o [n \in DOMAIN ab |-> [table |-> "audio_transcripts", row |-> ab[n]]]
    \o [n \in DOMAIN vb |-> [table |-> "video_signals", row |-> vb[n]]]

\* the statements of one flush, in the order _insert_transaction_batch issues them
flush_statements(tb, ib, ab, vb) ==
    [n \in DOMAIN tb |-> [table |-> "transactions", row |-> tb[n]]]
    \o [n \in DOMAIN ib |-> [table |-> "transaction_items", row |-> ib[n]]]
    \o [n \in DOMAIN ab |-> [table |-> "audio_transcripts", row |-> ab[n]]]
    \o [n \in DOMAIN vb |-> [table |-> "video_signals", row |-> vb[n]]]

\* one statement of a flush: only transactions has ON CONFLICT DO NOTHING
flush_statement(view, st) ==
    IF st.table = "transactions"
    THEN [view EXCEPT !.transactions =
            OnConflictDoNothing(@, "transaction_id", st.row).table]
    ELSE [view EXCEPT ![st.table] = Insert(@, st.row).table]

\* the connection's view after the first n statements of a flush
RECURSIVE insert_transaction_batch(_, _, _)
insert_transaction_batch(view, stmts, n) ==
    IF n = 0 THEN view
    ELSE flush_statement(insert_transaction_batch(view, stmts, n - 1), stmts[n])

\* a commit that is reached whether or not a statement raised
flush_commit_always(committed, view, raised) == view

\* what is committed after a flush: conn.commit() is reached only when no
\* statement raised
flush_commit(committed, view, raised) ==
    IF raised THEN committed ELSE view

\* a mix-up of the two price columns
product_info_peso(row) ==
    [ brand_name |-> row.brand_name,
      product_name |-> row.product_name,
      unit_price |-> float(row.peso_value).v ]

\* the product info extract_entities keeps for a new sku
product_info(row) ==
    [ brand_name |-> row.brand_name,
      product_name |-> row.product_name,
      unit_price |-> float(row.unit_price).v ]

\* extract_entities: the registries after the first n rows, starting from reg;
\* raised when the unit_price of a new sku does not parse
RECURSIVE extract(_, _, _)
extract(reg, rows, n) ==
    IF n = 0 THEN reg
    ELSE LET p == extract(reg, rows, n - 1)
             row == rows[n]
             b == SetDefault(p.brands, row.brand_name, NoId)
         IN  IF p.raised THEN p
             ELSE IF row.sku_id \notin Keys(p.products) /\ ~float(row.unit_price).ok
             THEN [p EXCEPT !.brands = b, !.raised = TRUE]
             ELSE [ raised |-> FALSE,
                    brands |-> b,
                    products |-> SetDefault(p.products, row.sku_id, product_info(row)),
                    stores |-> p.stores \cup {row.store_id},
                    customers |-> p.customers \cup
                        (IF truthy(row.customer_id) THEN {row.customer_id} ELSE {}),
                    campaigns |-> p.campaigns \cup
                        (IF truthy(row.campaign_id) THEN {row.campaign_id} ELSE {}) ]


(***************************************************************************)
(* The state.                                                              *)
(***************************************************************************)
VARIABLES
    csv,          \* the input file: a sequence of rows
    batch_size,   \* DataLoader.batch_size
    pc,           \* the method run() calls next
    conn,         \* self.conn / self.cursor: "none", "open", "closed"
    brands,       \* self.brands: dict brand_name -> brand_id
    products,     \* self.products: dict sku_id -> product info
    stores,       \* self.stores
    customers,    \* self.customers
    campaigns,    \* self.campaigns
    lt,           \* the locals of load_transactions
    db,           \* the committed tables
    tx,           \* the tables as the open connection sees them
    seq,          \* the surrogate-key sequences (not transactional)
    runs,         \* how many runs of the loader have started
    err,          \* the exception run() re-raises, "" when none
    returned,     \* the methods that returned normally in this run, in order
    hist,         \* history: the database and the brand ids of earlier runs
    frow,         \* fanout of one row: the row
    fout,         \* fanout of one row: << >> or <<the tuples>>
    inst,         \* the concurrent loader instances
    log,          \* what refresh_materialized_views has printed, per view
    content,      \* update_suki_to_suqi: the argument of update_content
    result,       \* update_suki_to_suqi: what update_content returned
    changes_made  \* update_suki_to_suqi: the global counter

vars == <<csv, batch_size, pc, conn, brands, products, stores, customers,
          campaigns, lt, db, tx, seq, runs, err, returned, hist, frow, fout,
          inst, log, content, result, changes_made>>

input == <<csv, batch_size>>
registry == <<brands, products, stores, customers, campaigns>>
storage == <<db, tx, seq>>
text == <<content, result, changes_made>>
others == <<frow, fout, inst, log, text>>

\* the locals of load_transactions before its loop
NoLocals ==
    [ i |-> 1, customer_map |-> <<>>,
      trans_batch |-> <<>>, items_batch |-> <<>>,
      audio_batch |-> <<>>, video_batch |-> <<>>,
      transaction_count |-> 0, item_count |-> 0,
      audio_count |-> 0, video_count |-> 0 ]

\* update_suki_to_suqi.py is not running
NoText ==
    /\ content = <<>>
    /\ result = [none |-> TRUE, updated |-> <<>>]
    /\ changes_made = 0

NoHist ==
    [ base |-> EmptyDb, prev_brands |-> <<>>, prev_db |-> EmptyDb,
      prev_complete |-> FALSE ]

\* DataLoader.__init__
NewLoader ==
    /\ conn = "none"
    /\ brands = <<>>
    /\ products = <<>>
    /\ stores = {}
    /\ customers = {}
    /\ campaigns = {}
    /\ lt = NoLocals
    /\ err = ""
    /\ returned = <<>>
    /\ log = <<>>

Init ==
    /\ csv \in CsvFiles
    /\ batch_size \in 1..MaxBatchSize
    /\ pc = "connect"
    /\ NewLoader
    /\ db = EmptyDb
    /\ tx = EmptyDb
    /\ seq = [brands |-> 0, customers |-> 0]
    /\ runs = 1
    /\ hist = NoHist
    /\ NoText
    /\ frow = Base
    /\ fout = <<>>
    /\ inst = <<>>

(***************************************************************************)
(* The methods of DataLoader.  ret is where control goes when the method   *)
(* returns, exc where it goes when the method raises.                      *)
(***************************************************************************)
Return(name, ret) ==
    /\ pc' = ret
    /\ returned' = Append(returned, name)
    /\ err' = err

RaiseTo(what, exc) ==
    /\ pc' = exc
    /\ err' = what
    /\ returned' = returned

\* psycopg2.connect raises, or it connects and conn.cursor() returns or raises
connect(ret, exc) ==
    /\ \/ /\ conn' = "open"
          /\ tx' = db
          /\ Return("connect", ret)
       \/ /\ RaiseTo("OperationalError", exc)
          /\ UNCHANGED <<conn, tx>>
       \/ /\ conn' = "open"
          /\ tx' = db
          /\ RaiseTo("OperationalError", exc)
    /\ UNCHANGED <<input, registry, lt, db, seq, runs, hist, others>>

\* "if self.cursor: close; if self.conn: close"
closed(c) == IF c = "open" THEN "closed" ELSE c

disconnect(ret) ==
    /\ conn' = closed(conn)
    /\ pc' = ret
    /\ UNCHANGED <<input, registry, lt, storage, runs, err, returned, hist, others>>

extract_entities(ret, exc) ==
    LET r == extract([raised |-> FALSE, brands |-> brands, products |-> products,
                      stores |-> stores, customers |-> customers,
                      campaigns |-> campaigns], csv, Len(csv))
    IN  /\ brands' = r.brands
        /\ products' = r.products
        /\ stores' = r.stores
        /\ customers' = r.customers
        /\ campaigns' = r.campaigns
        /\ IF r.raised THEN RaiseTo("ValueError", exc)
                       ELSE Return("extract_entities", ret)
        /\ UNCHANGED <<input, conn, lt, storage, runs, hist, others>>

\* fail = 0: every statement succeeds and the method commits;
\* fail = k > 0: the k-th statement raises after k - 1 were executed
load_brands(ret, exc) ==
    \E fail \in 0..Len(brands) :
        LET n == IF fail = 0 THEN Len(brands) ELSE fail - 1
            r == exec_brands(tx.brands, brands, seq.brands, n)
        IN  /\ brands' = r.brands
            /\ seq' = [seq EXCEPT !.brands = @ + n]
            /\ tx' = [tx EXCEPT !.brands = r.table]
            /\ IF fail = 0
               THEN db' = tx' /\ Return("load_brands", ret)
               ELSE db' = db /\ RaiseTo("DatabaseError", exc)
            /\ UNCHANGED <<input, conn, products, stores, customers, campaigns,
                           lt, runs, hist, others>>

load_products(ret, exc) ==
    LET data == products_data(brands, products)
    IN  \E fail \in 0..Len(data) :
            LET n == IF fail = 0 THEN Len(data) ELSE fail - 1
            IN  /\ tx' = [tx EXCEPT !.products = exec_products(@, data, n)]
                /\ IF fail = 0
                   THEN db' = tx' /\ Return("load_products", ret)
                   ELSE db' = db /\ RaiseTo("DatabaseError", exc)
                /\ UNCHANGED <<input, conn, registry, lt, seq, runs, hist, others>>

load_stores(ret, exc) ==
    LET sd == stores_data(csv, Len(csv))
    IN  IF sd.raised
        THEN /\ RaiseTo("ValueError", exc)
             /\ UNCHANGED <<input, conn, registry, lt, storage, runs, hist, others>>
        ELSE \E fail \in 0..Len(sd.data) :
            LET n == IF fail = 0 THEN Len(sd.data) ELSE fail - 1
            IN  /\ tx' = [tx EXCEPT !.stores = exec_stores(@, sd.data, n)]
                /\ IF fail = 0
                   THEN db' = tx' /\ Return("load_stores", ret)
                   ELSE db' = db /\ RaiseTo("DatabaseError", exc)
                /\ UNCHANGED <<input, conn, registry, lt, seq, runs, hist, others>>

load_customers(ret, exc) ==
    LET data == customers_data(csv, Len(csv))
    IN  \E fail \in 0..Len(data) :
            LET n == IF fail = 0 THEN Len(data) ELSE fail - 1
            IN  /\ tx' = [tx EXCEPT !.customers =
                            exec_customers(@, data, seq.customers, n)]
                /\ seq' = [seq EXCEPT !.customers = @ + n]
                /\ IF fail = 0
                   THEN db' = tx' /\ Return("load_customers", ret)
                   ELSE db' = db /\ RaiseTo("DatabaseError", exc)
                /\ UNCHANGED <<input, conn, registry, lt, runs, hist, others>>

\* "if data:" - with no known campaign nothing is executed or committed
load_campaigns(ret, exc) ==
    LET data == campaigns_data(campaigns)
    IN  \E fail \in 0..Len(data) :
            LET n == IF fail = 0 THEN Len(data) ELSE fail - 1
            IN  /\ tx' = [tx EXCEPT !.campaigns = exec_campaigns(@, data, n)]
                /\ IF fail = 0
                   THEN /\ db' = IF Len(data) > 0 THEN tx' ELSE db
                        /\ Return("load_campaigns", ret)
                   ELSE db' = db /\ RaiseTo("DatabaseError", exc)
                /\ UNCHANGED <<input, conn, registry, lt, seq, runs, hist, others>>


\* _insert_transaction_batch on the four buffers, then the bookkeeping of
\* load_transactions; the loop goes on at row i2
flush(tb, ib, ab, vb, i2, ret, exc) ==
    LET stmts == flush_statements(tb, ib, ab, vb)
    IN  \E fail \in 0..Len(stmts) :
            LET n == IF fail = 0 THEN Len(stmts) ELSE fail - 1
                view == insert_transaction_batch(tx, stmts, n)
            IN  /\ tx' = view
                /\ db' = flush_commit(db, view, fail # 0)
                /\ IF fail = 0
                   THEN /\ lt' = [lt EXCEPT
                                !.i = i2,
                                !.transaction_count = @ + Len(tb),
                                !.item_count = @ + Len(ib),
                                !.audio_count = @ + Len(ab),
                                !.video_count = @ + Len(vb),
                                !.trans_batch = <<>>, !.items_batch = <<>>,
                                !.audio_batch = <<>>, !.video_batch = <<>>]
                        /\ pc' = ret
                        /\ UNCHANGED <<err, returned>>
                   ELSE /\ lt' = [lt EXCEPT
                                !.trans_batch = tb, !.items_batch = ib,
                                !.audio_batch = ab, !.video_batch = vb]
                        /\ RaiseTo("DatabaseError", exc)

\* load_transactions up to its loop: the customer id mapping
load_transactions(ret, exc) ==
    /\ \/ /\ lt' = [NoLocals EXCEPT !.customer_map = select_customer_map(tx.customers)]
          /\ pc' = ret
          /\ UNCHANGED <<err, returned>>
       \/ /\ RaiseTo("DatabaseError", exc)
          /\ lt' = lt
    /\ UNCHANGED <<input, conn, registry, storage, runs, hist, others>>

\* a comparison that lets the batch grow one row past batch_size
batch_full_late(tb, size) == Len(tb) > size

\* "if len(trans_batch) >= self.batch_size"
batch_full(tb, size) == Len(tb) >= size

\* one iteration of "for row in reader", the flush of a full batch included
next_row(ret, exc) ==
    /\ lt.i <= Len(csv)
    /\ LET f == Fanout(csv[lt.i], lt.customer_map)
           tb == lt.trans_batch \o f.trans
           ib == lt.items_batch \o f.item
           ab == lt.audio_batch \o f.audio
           vb == lt.video_batch \o f.video
       IN  IF f.raised
           THEN /\ RaiseTo("ValueError", exc)
                /\ UNCHANGED <<lt, db, tx>>
           ELSE IF batch_full(tb, batch_size)
           THEN flush(tb, ib, ab, vb, lt.i + 1, ret, exc)
           ELSE /\ lt' = [lt EXCEPT !.i = @ + 1,
                                    !.trans_batch = tb, !.items_batch = ib,
                                    !.audio_batch = ab, !.video_batch = vb]
                /\ pc' = ret
                /\ UNCHANGED <<err, returned, db, tx>>
    /\ UNCHANGED <<input, conn, registry, seq, runs, hist, others>>

\* a method that returns after the loop without the last flush
end_of_rows_no_flush(ret, exc) ==
    /\ lt.i > Len(csv)
    /\ Return("load_transactions", ret)
    /\ UNCHANGED <<lt, db, tx>>
    /\ UNCHANGED <<input, conn, registry, seq, runs, hist, others>>

\* after the loop: "if trans_batch:" the last flush, then the method returns
end_of_rows(ret, exc) ==
    /\ lt.i > Len(csv)
    /\ IF lt.trans_batch # <<>>
       THEN flush(lt.trans_batch, lt.items_batch, lt.audio_batch, lt.video_batch,
                  lt.i, "end_of_rows", exc)
       ELSE /\ Return("load_transactions", ret)
            /\ UNCHANGED <<lt, db, tx>>
    /\ UNCHANGED <<input, conn, registry, seq, runs, hist, others>>

\* a loop that leaves at the first REFRESH that raises
refresh_attempts_break(fail) ==
    [n \in 1..(IF fail = 0 THEN Len(views) ELSE fail) |->
        [view |-> views[n], ok |-> fail = 0 \/ n < fail]]

\* "for view in views: try: execute(REFRESH) except: print": the lines printed
\* when the fail-th REFRESH is the first to raise (fail = 0: none raises).
\* The exception is caught and the loop goes on, but it leaves the
\* transaction aborted, so the later REFRESHes raise as well (caught too).
refresh_attempts(fail) ==
    [n \in DOMAIN views |-> [view |-> views[n], ok |-> fail = 0 \/ n < fail]]

\* fail = 0: every view is refreshed and the commit publishes it;
\* fail > 0: the commit of the aborted transaction ends it as a rollback.
refresh_materialized_views(ret) ==
    \E fail \in 0..Len(views) :
        /\ log' = log \o refresh_attempts(fail)
        /\ IF fail = 0
           THEN /\ tx' = [tx EXCEPT !.refreshed = [v \in ViewNames |-> runs]]
                /\ db' = tx'
           ELSE /\ tx' = db
                /\ db' = db
        /\ Return("refresh_materialized_views", ret)
        /\ UNCHANGED <<input, conn, registry, lt, seq, runs, hist, frow, fout, inst, text>>

\* a handler that disconnects first: its rollback finds no open connection
except_handler_close_first(ret) ==
    /\ conn' = closed(conn)
    /\ tx' = IF conn' = "open" THEN db ELSE tx
    /\ pc' = ret
    /\ UNCHANGED <<input, registry, lt, db, seq, runs, err, returned,
                   hist, others>>

\* run()'s "except Exception": rollback when connected, then re-raise; the
\* exception leaves run() through the finally clause, which disconnects
except_handler(ret) ==
    /\ tx' = IF conn = "open" THEN db ELSE tx
    /\ conn' = closed(conn)
    /\ pc' = ret
    /\ UNCHANGED <<input, registry, lt, db, seq, runs, err, returned,
                   hist, others>>

(***************************************************************************)
(* DataLoader.run: one action per call it makes.                           *)
(***************************************************************************)
run_connect == pc = "connect" /\ connect("extract_entities", "except")
run_extract_entities ==
    pc = "extract_entities" /\ extract_entities("load_brands", "except")
\* load_products called where load_brands belongs
run_load_products_early ==
    pc = "load_brands" /\ load_products("load_products", "except")

run_load_brands == pc = "load_brands" /\ load_brands("load_products", "except")
run_load_products == pc = "load_products" /\ load_products("load_stores", "except")
run_load_stores == pc = "load_stores" /\ load_stores("load_customers", "except")
\* an exception of load_customers that is swallowed: run() goes on
run_load_customers_swallowed ==
    pc = "load_customers" /\ load_customers("load_campaigns", "load_campaigns")

run_load_customers ==
    pc = "load_customers" /\ load_customers("load_campaigns", "except")
run_load_campaigns ==
    pc = "load_campaigns" /\ load_campaigns("load_transactions", "except")
run_load_transactions ==
    pc = "load_transactions" /\ load_transactions("rows", "except")
run_next_row == pc = "rows" /\ next_row("rows", "except")
run_end_of_rows ==
    /\ pc \in {"rows", "end_of_rows"}
    /\ end_of_rows("refresh_materialized_views", "except")
run_refresh_materialized_views ==
    pc = "refresh_materialized_views" /\ refresh_materialized_views("finally")
run_except == pc = "except" /\ except_handler("done")
run_finally == pc = "finally" /\ disconnect("done")

\* main() once more on the same file: a new process, a new DataLoader
rerun ==
    /\ pc = "done"
    /\ runs < MaxRuns
    /\ runs' = runs + 1
    /\ pc' = "connect"
    /\ conn' = "none"
    /\ brands' = <<>>
    /\ products' = <<>>
    /\ stores' = {}
    /\ customers' = {}
    /\ campaigns' = {}
    /\ lt' = NoLocals
    /\ err' = ""
    /\ returned' = <<>>
    /\ hist' = [ base |-> db,
                 prev_brands |-> IF \E n \in DOMAIN returned : returned[n] = "load_brands"
                                 THEN brands ELSE hist.prev_brands,
                 prev_db |-> IF err = "" THEN db ELSE hist.prev_db,
                 prev_complete |-> hist.prev_complete \/ err = "" ]
    /\ log' = <<>>
    /\ UNCHANGED <<input, storage, frow, fout, inst, text>>

Next ==
    \/ run_connect
    \/ run_extract_entities
    \/ run_load_brands
    \/ run_load_products
    \/ run_load_stores
    \/ run_load_customers
    \/ run_load_campaigns
    \/ run_load_transactions
    \/ run_next_row
    \/ run_end_of_rows
    \/ run_refresh_materialized_views
    \/ run_except
    \/ run_finally
    \/ rerun

Spec == Init /\ [][Next]_vars


(***************************************************************************)
(* Properties of a run and of a re-run (specification Spec).               *)
(***************************************************************************)
Returned(name) == \E n \in DOMAIN returned : returned[n] = name

\* every row of the table is there once and no two rows share the key
UniqueKey(table, col) ==
    \A r \in RowsOf(table) :
        /\ CopiesIn(r, table) = 1
        /\ Conflicts(table, col, r[col]) = {r}

\* the key has exactly one row
OneRow(table, col, key) ==
    \E r \in RowsOf(table) : Conflicts(table, col, key) = {r} /\ CopiesIn(r, table) = 1

CsvValues(col) == {csv[n][col] : n \in DOMAIN csv}

\* C1: idempotent reference load.  Once load_brands has returned in a re-run,
\* self.brands maps every brand name to the id the earlier run got for it; and
\* no reference table ever holds two rows for one natural key, while every
\* key a reference load has upserted has its one row.
C1_IdempotentReferenceLoad ==
    /\ (Returned("load_brands") /\ hist.prev_brands # <<>>) => brands = hist.prev_brands
    /\ UniqueKey(db.brands, "brand_name")
    /\ UniqueKey(db.products, "sku_id")
    /\ UniqueKey(db.stores, "store_id")
    /\ UniqueKey(db.customers, "external_id")
    /\ UniqueKey(db.campaigns, "campaign_id")
    /\ Returned("load_brands") =>
          \A k \in Keys(brands) :
              /\ OneRow(db.brands, "brand_name", k)
              /\ \E r \in RowsOf(db.brands) : r.brand_name = k /\ r.brand_id = Get(brands, k)
    /\ Returned("load_products") => \A k \in Keys(products) : OneRow(db.products, "sku_id", k)
    /\ Returned("load_stores") => \A k \in stores : OneRow(db.stores, "store_id", k)
    /\ Returned("load_customers") =>
          \A k \in customers : OneRow(db.customers, "external_id", k)
    /\ Returned("load_campaigns") =>
          \A k \in campaigns \cap DOMAIN campaign_names :
              OneRow(db.campaigns, "campaign_id", k)

\* C1 witness: the five reference loads have returned a second time, over
\* two brands, after an earlier run that loaded them
C1_Witness ==
    /\ runs = 2
    /\ Returned("load_campaigns")
    /\ hist.prev_brands # <<>>
    /\ Len(brands) = 2
    /\ campaigns # {}
    /\ customers # {}

\* C2 (as claimed): after a second complete run over the same input the
\* transactions and transaction_items tables are what they were after the first
C2_NoDuplicateFacts ==
    (pc = "done" /\ err = "" /\ hist.prev_complete) =>
        /\ db.transactions = hist.prev_db.transactions
        /\ db.transaction_items = hist.prev_db.transaction_items

\* C3 (as claimed): every committed fact row's store_id, campaign_id (when
\* not null) and sku_id is the key of a committed reference row
C3_ReferentialIntegrity ==
    /\ \A t \in RowsOf(db.transactions) :
          /\ Conflicts(db.stores, "store_id", t.store_id) # {}
          /\ t.campaign_id # None =>
                Conflicts(db.campaigns, "campaign_id", t.campaign_id) # {}
    /\ \A it \in RowsOf(db.transaction_items) :
          Conflicts(db.products, "sku_id", it.sku_id) # {}

\* the fact rows the first n rows of the file put into a table
RECURSIVE FactsOf(_, _, _)
FactsOf(rows, n, kind) ==
    IF n = 0 THEN EmptyBag
    ELSE LET f == Fanout(rows[n], <<>>)
         IN  FactsOf(rows, n - 1, kind) (+) SetToBag({f[kind][m] : m \in DOMAIN f[kind]})

TransactionIds(table) == {t.transaction_id : t \in RowsOf(table)}

\* C4: batch atomicity.  In every committed state each transaction row has an
\* item row, and the committed item, audio and video rows are those the
\* database held when the run began plus those of the rows of the batches
\* this run has committed (lt.transaction_count rows): of a flush that
\* raised, nothing is visible, whichever statement raised.
C4_BatchAtomicity ==
    /\ \A t \in RowsOf(db.transactions) :
          Conflicts(db.transaction_items, "transaction_id", t.transaction_id) # {}
    /\ lt.item_count = lt.transaction_count
    /\ db.transaction_items =
          hist.base.transaction_items (+) FactsOf(csv, lt.transaction_count, "item")
    /\ db.audio_transcripts =
          hist.base.audio_transcripts (+) FactsOf(csv, lt.transaction_count, "audio")
    /\ db.video_signals =
          hist.base.video_signals (+) FactsOf(csv, lt.transaction_count, "video")
    /\ TransactionIds(db.transactions) =
          TransactionIds(hist.base.transactions)
            \cup {csv[n].transaction_id : n \in 1..lt.transaction_count}

\* C4 witness: a flush of two rows raised on its second item statement, after
\* both transaction statements and the first item statement were executed;
\* the connection sees those three rows, the database none of them
C4_Witness ==
    /\ pc = "except"
    /\ err = "DatabaseError"
    /\ Len(lt.trans_batch) = 2
    /\ Len(lt.items_batch) = 2
    /\ Count(tx.transactions) = 2
    /\ Count(tx.transaction_items) = 1
    /\ Count(db.transactions) = 0
    /\ Count(db.transaction_items) = 0

\* C7 (as claimed): a row that does not parse is skipped and the run goes on:
\* a run over a file with such a row and with rows that do parse ends, unless
\* the storage failed, without an error and with the transaction row of
\* every row that does parse
C7_MalformedRowSkipped ==
    (/\ pc = "done"
     /\ err \notin {"DatabaseError", "OperationalError"}
     /\ \E n \in DOMAIN csv : row_raises(csv[n])
     /\ \E n \in DOMAIN csv : ~row_raises(csv[n])) =>
        /\ err = ""
        /\ \A n \in DOMAIN csv :
              ~row_raises(csv[n]) => csv[n].transaction_id \in TransactionIds(db.transactions)

\* C9: optional-fact gating.  While load_transactions runs without an error,
\* the audio tuples it has appended so far (flushed or still buffered) are as
\* many as the rows read so far whose audio_transcript is non-empty, and the
\* buffered ones are those rows' own.
C9_AudioGating ==
    err = "" =>
        /\ lt.audio_count + Len(lt.audio_batch) =
              Cardinality({n \in 1..(lt.i - 1) : csv[n].audio_transcript # ""})
        /\ \A m \in DOMAIN lt.audio_batch :
              /\ lt.audio_batch[m].full_transcript # ""
              /\ \E n \in 1..(lt.i - 1) :
                    lt.audio_batch[m].transaction_id = csv[n].transaction_id

\* C9 witness: two rows read, the first with a transcript and the second
\* without, one audio tuple appended
C9_Witness ==
    /\ pc = "rows"
    /\ lt.i = 3
    /\ csv[1].audio_transcript # ""
    /\ csv[2].audio_transcript = ""
    /\ lt.audio_count + Len(lt.audio_batch) = 1

\* the first row of the file that carries the key
FirstRow(col, key) == csv[CHOOSE n \in DOMAIN csv :
                            csv[n][col] = key /\ \A m \in 1..(n - 1) : csv[m][col] # key]

\* C10: round trip.  After a complete run the products table holds exactly
\* one row per distinct sku_id of the file, with that sku's price and its
\* brand's id, and the brands table exactly one row per distinct brand name.
C10_RoundTrip ==
    (pc = "done" /\ err = "") =>
        /\ Count(db.products) = Cardinality(CsvValues("sku_id"))
        /\ Count(db.brands) = Cardinality(CsvValues("brand_name"))
        /\ \A k \in CsvValues("brand_name") : OneRow(db.brands, "brand_name", k)
        /\ \A k \in CsvValues("sku_id") :
              /\ OneRow(db.products, "sku_id", k)
              /\ \A r \in Conflicts(db.products, "sku_id", k) :
                    /\ r.msrp = float(FirstRow("sku_id", k).unit_price).v
                    /\ \E b \in RowsOf(db.brands) :
                          /\ b.brand_id = r.brand_id
                          /\ b.brand_name = FirstRow("sku_id", k).brand_name

\* C10 witness: the scenario of the round trip - two rows of one brand and
\* sku at 42.00, a third row of another brand - after a complete run
C10_Witness ==
    /\ pc = "done"
    /\ err = ""
    /\ csv = <<Base, RowSameSku, RowOtherBrand>>
    /\ Count(db.brands) = 2
    /\ \E r \in RowsOf(db.products) : r.sku_id = "ALS001" /\ r.msrp = 4200

\* a flush of this run has raised: the storage's error, with rows buffered
FlushRaised ==
    /\ err \notin {"", "ValueError", "OperationalError"}
    /\ lt.trans_batch # <<>>

\* C11 (as claimed): a flush that raises aborts the run.  When the run has
\* ended, the database holds the facts of the batches committed before the
\* failing one and nothing of it or of a later batch, load_transactions has
\* not returned, no view refresh was issued, and the error that leaves run()
\* is a BatchWriteFailure (carrying the batch's row count and the cause).
C11_BatchWriteFailure ==
    (pc = "done" /\ FlushRaised) =>
        /\ TransactionIds(db.transactions) =
              TransactionIds(hist.base.transactions)
                \cup {csv[n].transaction_id : n \in 1..lt.transaction_count}
        /\ db.transaction_items =
              hist.base.transaction_items (+) FactsOf(csv, lt.transaction_count, "item")
        /\ ~Returned("load_transactions")
        /\ log = <<>>
        /\ err = "BatchWriteFailure"

ReferenceLoads ==
    {"load_brands", "load_products", "load_stores", "load_customers", "load_campaigns"}

FactTables == {"transactions", "transaction_items", "audio_transcripts", "video_signals"}

\* C12: a reference load that raises is fatal for the run.  From the moment
\* one of the five loads has raised, in every later state of that run, no
\* fact table has changed since the run began - neither as committed nor as
\* the connection sees it -, load_transactions has not started and no view
\* refresh was issued.
C12_ReferenceLoadFatal ==
    (/\ err # ""
     /\ Returned("extract_entities")
     /\ \E m \in ReferenceLoads : ~Returned(m)) =>
        /\ \A t \in FactTables : db[t] = hist.base[t] /\ tx[t] = hist.base[t]
        /\ lt = NoLocals
        /\ ~Returned("load_transactions")
        /\ log = <<>>
        /\ db.refreshed = hist.base.refreshed

\* C12 witness: a re-run over a database that holds the facts of an earlier
\* run; load_stores has committed, load_customers raised, the run has ended
C12_Witness ==
    /\ pc = "done"
    /\ runs = 2
    /\ err = "DatabaseError"
    /\ Returned("load_stores")
    /\ ~Returned("load_customers")
    /\ Count(db.transactions) > 0
    /\ Count(db.stores) > 0

\* C13: view refresh independence.  Once refresh_materialized_views has
\* returned - it always returns -, a REFRESH was attempted for each of the
\* four views, in the order of the list, whichever of them raised; the run
\* carries no error and ends by disconnecting.
C13_ViewRefreshIndependent ==
    Returned("refresh_materialized_views") =>
        /\ Len(log) = Len(views)
        /\ \A n \in DOMAIN views : log[n].view = views[n]
        /\ err = ""
        /\ pc \in {"finally", "done"}
        /\ pc = "done" => conn = "closed"

\* C13 witness: the REFRESH of the second view raised, the third and the
\* fourth were attempted all the same, and the run has ended without error
C13_Witness ==
    /\ pc = "done"
    /\ err = ""
    /\ Len(log) = 4
    /\ log[1].ok
    /\ ~log[2].ok
    /\ log[4].view = "mv_regional_performance"

\* the rows of a fact table after one complete run over the file on an empty
\* database
CompleteRun(kind) == FactsOf(csv, Len(csv), kind)

\* C14 (as claimed): resumability.  A run that aborted, whatever it had
\* committed, followed by a complete run over the same file leaves the tables
\* as one complete run on the original (empty) database would: one
\* transaction row per transaction id, the item, audio and video rows of the
\* file once each, one reference row per natural key.
C14_Resumable ==
    (pc = "done" /\ err = "" /\ runs = 2 /\ ~hist.prev_complete) =>
        /\ TransactionIds(db.transactions) = CsvValues("transaction_id")
        /\ UniqueKey(db.transactions, "transaction_id")
        /\ db.transaction_items = CompleteRun("item")
        /\ db.audio_transcripts = CompleteRun("audio")
        /\ db.video_signals = CompleteRun("video")
        /\ \A k \in CsvValues("brand_name") : OneRow(db.brands, "brand_name", k)
        /\ \A k \in CsvValues("sku_id") : OneRow(db.products, "sku_id", k)
        /\ \A k \in CsvValues("store_id") : OneRow(db.stores, "store_id", k)
        /\ \A k \in CsvValues("customer_id") \ {""} :
              OneRow(db.customers, "external_id", k)

RECURSIVE BagOf(_)
BagOf(q) == IF q = <<>> THEN EmptyBag ELSE SetToBag({Head(q)}) (+) BagOf(Tail(q))

\* the rows of a table the connection has written and not committed
Uncommitted(t) == tx[t] (-) db[t]

\* C17: statement order within a flush.  Uncommitted fact rows are seen only
\* where a statement of a flush has raised - a flush that went through ended
\* with its commit -, and there they are a beginning of the order
\* Transaction, Item, Audio, Video: an item row is there only with the
\* transaction rows of the whole batch, an audio row only with all its item
\* rows, a video row only with all its audio rows.
C17_FlushOrder ==
    /\ pc # "except" => \A t \in FactTables : tx[t] = db[t]
    /\ (pc = "except" /\ FlushRaised) =>
          /\ Uncommitted("transaction_items") # EmptyBag =>
                \A n \in DOMAIN lt.trans_batch :
                    lt.trans_batch[n].transaction_id \in TransactionIds(tx.transactions)
          /\ Uncommitted("audio_transcripts") # EmptyBag =>
                Uncommitted("transaction_items") = BagOf(lt.items_batch)
          /\ Uncommitted("video_signals") # EmptyBag =>
                Uncommitted("audio_transcripts") = BagOf(lt.audio_batch)
          /\ \A t \in FactTables : db[t] \sqsubseteq tx[t]

\* C17 witness: a flush of two rows, one of them with a transcript and video
\* objects, raised on its video statement: two transaction rows, two item
\* rows and the audio row are written, none is committed
C17_Witness ==
    /\ pc = "except"
    /\ FlushRaised
    /\ Len(lt.trans_batch) = 2
    /\ Len(lt.video_batch) = 1
    /\ Count(Uncommitted("transactions")) = 2
    /\ Count(Uncommitted("transaction_items")) = 2
    /\ Count(Uncommitted("audio_transcripts")) = 1
    /\ Count(Uncommitted("video_signals")) = 0

\* C18: flush trigger.  While load_transactions runs, whenever it is about to
\* read a row the four buffers hold fewer than batch_size rows - a batch that
\* reached batch_size was flushed in the iteration that filled it -, the item
\* buffer is as long as the transaction buffer and the audio and video
\* buffers no longer (they fill and empty together), every flush in the loop
\* took exactly batch_size rows, and every row read is flushed or buffered.
\* When load_transactions has returned, every row of the file was flushed
\* and the buffers are empty.
C18_FlushTrigger ==
    /\ (pc = "rows" /\ err = "") =>
          /\ Len(lt.trans_batch) < batch_size
          /\ Len(lt.items_batch) = Len(lt.trans_batch)
          /\ Len(lt.audio_batch) <= Len(lt.trans_batch)
          /\ Len(lt.video_batch) <= Len(lt.trans_batch)
          /\ lt.transaction_count % batch_size = 0
          /\ lt.transaction_count + Len(lt.trans_batch) = lt.i - 1
    /\ Returned("load_transactions") =>
          /\ lt.transaction_count = Len(csv)
          /\ lt.item_count = Len(csv)
          /\ lt.trans_batch = <<>> /\ lt.items_batch = <<>>
          /\ lt.audio_batch = <<>> /\ lt.video_batch = <<>>

\* C18 witness: batch_size 2 and three rows: the first two were flushed when
\* the second filled the batch, the third is buffered at the end of the input
C18_Witness ==
    /\ pc = "rows"
    /\ err = ""
    /\ batch_size = 2
    /\ lt.i = 4
    /\ Len(csv) = 3
    /\ lt.transaction_count = 2
    /\ Len(lt.trans_batch) = 1

\* the calls of run(), in order
run_order ==
    << "connect", "extract_entities", "load_brands", "load_products", "load_stores",
       "load_customers", "load_campaigns", "load_transactions",
       "refresh_materialized_views" >>

ReferenceTables == {"brands", "products", "stores", "customers", "campaigns"}

\* C19: phase ordering within one run.  The methods return in the order of
\* run(); a reference table is written only after extract_entities has
\* returned, having read every row of the file; products only after
\* load_brands has committed a row for every brand; a fact table, and the
\* locals of load_transactions, only after the five reference loads have
\* returned; and a REFRESH is issued only after load_transactions has
\* returned with every batch committed.
C19_PhaseOrder ==
    /\ returned = SubSeq(run_order, 1, Len(returned))
    /\ (\E t \in ReferenceTables : tx[t] # hist.base[t]) =>
          /\ Returned("extract_entities")
          /\ stores = CsvValues("store_id")
          /\ Keys(products) = CsvValues("sku_id")
    /\ tx.products # hist.base.products =>
          /\ Returned("load_brands")
          /\ \A k \in Keys(brands) : Conflicts(db.brands, "brand_name", k) # {}
    /\ ((\E t \in FactTables : tx[t] # hist.base[t]) \/ lt # NoLocals) =>
          \A m \in ReferenceLoads : Returned(m)
    /\ log # <<>> =>
          /\ Returned("load_transactions")
          /\ lt.transaction_count = Len(csv)
          /\ lt.trans_batch = <<>>
          /\ \A t \in FactTables : tx[t] = db[t]

\* C19 witness: a complete first run over three rows in two batches
C19_Witness ==
    /\ pc = "done"
    /\ runs = 1
    /\ err = ""
    /\ returned = run_order
    /\ batch_size = 2
    /\ Len(csv) = 3
    /\ Count(db.products) = 2
    /\ Count(db.transactions) = 3
    /\ Len(log) = 4

\* the row of the file a buffered transaction tuple was built from
RowOfBuffered(m) == csv[lt.transaction_count + m]

\* C21: an empty campaign_id is no campaign.  extract_entities registers
\* exactly the non-empty campaign ids of the file; the transaction tuple of a
\* row with an empty campaign_id has campaign_id null and
\* influenced_by_campaign false, that of a row with a campaign_id carries it
\* with influenced_by_campaign true - in the buffer and in the table -; and a
\* run ends with a ValueError only over a file with a row that does not parse.
C21_EmptyCampaign ==
    /\ Returned("extract_entities") => campaigns = CsvValues("campaign_id") \ {""}
    /\ \A m \in DOMAIN lt.trans_batch :
          LET t == lt.trans_batch[m]
              row == RowOfBuffered(m)
          IN  /\ t.transaction_id = row.transaction_id
              /\ row.campaign_id = "" =>
                    t.campaign_id = None /\ ~t.influenced_by_campaign
              /\ row.campaign_id # "" =>
                    t.campaign_id = row.campaign_id /\ t.influenced_by_campaign
    /\ \A t \in RowsOf(tx.transactions) :
          \E n \in DOMAIN csv :
              /\ csv[n].transaction_id = t.transaction_id
              /\ csv[n].campaign_id = "" =>
                    t.campaign_id = None /\ ~t.influenced_by_campaign
              /\ csv[n].campaign_id # "" =>
                    t.campaign_id = csv[n].campaign_id /\ t.influenced_by_campaign
    /\ err = "ValueError" => \E n \in DOMAIN csv : row_raises(csv[n])

\* C21 witness: a complete run over a file whose first row has no campaign
\* and whose second row has one
C21_Witness ==
    /\ pc = "done"
    /\ err = ""
    /\ Len(csv) = 2
    /\ csv[1].campaign_id = ""
    /\ csv[2].campaign_id = "CAMP001"
    /\ campaigns = {"CAMP001"}
    /\ \E t \in RowsOf(db.transactions) :
          t.transaction_id = csv[1].transaction_id /\ t.campaign_id = None
    /\ \E t \in RowsOf(db.transactions) :
          t.transaction_id = csv[2].transaction_id /\ t.campaign_id = "CAMP001"

\* C22 (as claimed): after a run, whatever the file, audio_transcripts and
\* video_signals hold at most one row per transaction_id and transactions
\* exactly one row per transaction_id of the rows the run has written
C22_OnePerTransaction ==
    pc = "done" =>
        /\ UniqueKey(db.audio_transcripts, "transaction_id")
        /\ UniqueKey(db.video_signals, "transaction_id")
        /\ UniqueKey(db.transactions, "transaction_id")
        /\ err = "" => TransactionIds(db.transactions) = CsvValues("transaction_id")

\* C29: row conservation in load_transactions.  A step of a run that moves
\* the counters is a flush: it adds as many items as transactions and no more
\* audio or video tuples than that, it carries batch_size transactions unless
\* it is the flush after the loop, which carries fewer, and after a flush of
\* the loop every row read so far has been written; and when load_transactions
\* returns, transaction_count and item_count are both the number of rows.
C29_RowConservation ==
    [][ runs' = runs =>
          /\ lt'.transaction_count # lt.transaction_count =>
                LET n == lt'.transaction_count - lt.transaction_count
                IN  /\ n > 0
                    /\ lt'.item_count - lt.item_count = n
                    /\ lt'.audio_count - lt.audio_count \in 0..n
                    /\ lt'.video_count - lt.video_count \in 0..n
                    /\ IF lt.i <= Len(csv)
                       THEN n = batch_size /\ lt'.transaction_count = lt'.i - 1
                       ELSE n = Len(lt.trans_batch) /\ n < batch_size
                    /\ lt'.transaction_count <= Len(csv)
                    /\ lt'.trans_batch = <<>> /\ lt'.items_batch = <<>>
          /\ (returned' # returned /\ returned'[Len(returned')] = "load_transactions") =>
                /\ lt'.transaction_count = Len(csv)
                /\ lt'.item_count = Len(csv)
      ]_vars

\* C29 witness: a run over three rows with batch_size 2 has returned from
\* load_transactions after a flush of two rows and a last flush of one
C29_Witness ==
    /\ Returned("load_transactions")
    /\ err = ""
    /\ batch_size = 2
    /\ Len(csv) = 3
    /\ lt.transaction_count = 3
    /\ lt.item_count = 3
    /\ Count(tx.transactions) = 3

\* C30: every way out of run() disconnects.  When run() has ended, the
\* connection is not open: it is closed if connect had opened it (always when
\* connect had returned) and was never opened otherwise; a run that did not get through all its calls ends with the
\* exception that stopped it (that of connect when connect failed, that of
\* extract_entities when nothing but connect had returned), and after a
\* failure on an open connection nothing uncommitted is left: the rollback
\* came before the close.  The handler is entered with the exception set.
C30_ExitPaths ==
    /\ pc = "except" => err # "" /\ (Returned("connect") => conn = "open")
    /\ pc = "done" =>
          /\ conn # "open"
          /\ Returned("connect") => conn = "closed"
          /\ err # "" <=> returned # run_order
          /\ ~Returned("connect") => err = "OperationalError"
          /\ returned = <<"connect">> => err = "ValueError"
          /\ (err # "" /\ Returned("connect")) => tx = db

\* C30 witness: a run that had committed a batch ended on a flush that raised
C30_Witness ==
    /\ pc = "done"
    /\ err = "DatabaseError"
    /\ conn = "closed"
    /\ Returned("load_campaigns")
    /\ lt.transaction_count = 1
    /\ lt.trans_batch # <<>>
    /\ tx = db
    /\ Count(db.transactions) = 1

(***************************************************************************)
(* Runs over files whose rows repeat a sku, a store and a customer with     *)
(* other attributes (specification SpecRepeatedKeys): Spec on other input.  *)
(***************************************************************************)
InitRepeatedKeys ==
    /\ csv \in CsvFilesRepeatedKeys
    /\ batch_size \in 1..MaxBatchSize
    /\ pc = "connect"
    /\ NewLoader
    /\ db = EmptyDb
    /\ tx = EmptyDb
    /\ seq = [brands |-> 0, customers |-> 0]
    /\ runs = 1
    /\ hist = NoHist
    /\ NoText
    /\ frow = Base
    /\ fout = <<>>
    /\ inst = <<>>

SpecRepeatedKeys == InitRepeatedKeys /\ [][Next]_vars

\* C20: first-observation retention.  Once extract_entities has returned,
\* the product registered for a sku has the brand, name and price of the
\* first row of the file with that sku; once load_products, load_stores and
\* load_customers have returned, the one committed row of every sku, store
\* and customer of the file has the attributes of the first row with that
\* key, whatever the later rows with the key say.
C20_FirstObservation ==
    /\ Returned("extract_entities") =>
          \A k \in CsvValues("sku_id") :
              /\ Get(products, k).brand_name = FirstRow("sku_id", k).brand_name
              /\ Get(products, k).product_name = FirstRow("sku_id", k).product_name
              /\ Get(products, k).unit_price = float(FirstRow("sku_id", k).unit_price).v
    /\ Returned("load_products") =>
          \A k \in CsvValues("sku_id") :
              /\ OneRow(db.products, "sku_id", k)
              /\ \A r \in Conflicts(db.products, "sku_id", k) :
                    /\ r.product_name = FirstRow("sku_id", k).product_name
                    /\ r.msrp = float(FirstRow("sku_id", k).unit_price).v
                    /\ \E b \in RowsOf(db.brands) :
                          /\ b.brand_id = r.brand_id
                          /\ b.brand_name = FirstRow("sku_id", k).brand_name
    /\ Returned("load_stores") =>
          \A k \in CsvValues("store_id") :
              /\ OneRow(db.stores, "store_id", k)
              /\ \A r \in Conflicts(db.stores, "store_id", k) :
                    /\ r.store_name = FirstRow("store_id", k).store_name
                    /\ r.latitude = float(FirstRow("store_id", k).latitude).v
                    /\ r.longitude = float(FirstRow("store_id", k).longitude).v
    /\ Returned("load_customers") =>
          \A k \in CsvValues("customer_id") \ {""} :
              /\ OneRow(db.customers, "external_id", k)
              /\ \A r \in Conflicts(db.customers, "external_id", k) :
                    r.gender = FirstRow("customer_id", k).gender

\* C20 witness: a complete run over a file whose second row repeats the sku,
\* the store and the customer of the first with another product name,
\* price, store name and gender
C20_Witness ==
    /\ pc = "done"
    /\ err = ""
    /\ Len(csv) >= 2
    /\ csv[1].sku_id = csv[2].sku_id
    /\ csv[1].product_name # csv[2].product_name
    /\ csv[1].unit_price # csv[2].unit_price
    /\ csv[1].store_id = csv[2].store_id
    /\ csv[1].store_name # csv[2].store_name
    /\ csv[1].customer_id = csv[2].customer_id
    /\ csv[1].gender # csv[2].gender
    /\ Count(db.products) = 1
    /\ Count(db.stores) = 1
    /\ Count(db.customers) = 1

(***************************************************************************)
(* Runs over one file and then over another (specification SpecNewFile):   *)
(* the later file has the sku, the store and the customer of the earlier   *)
(* one with other attributes.                                              *)
(***************************************************************************)
NewFiles == {<<Base>>, <<RowLaterObservation>>}

InitNewFile ==
    /\ csv \in NewFiles
    /\ batch_size \in 1..MaxBatchSize
    /\ pc = "connect"
    /\ NewLoader
    /\ db = EmptyDb
    /\ tx = EmptyDb
    /\ seq = [brands |-> 0, customers |-> 0]
    /\ runs = 1
    /\ hist = NoHist
    /\ NoText
    /\ frow = Base
    /\ fout = <<>>
    /\ inst = <<>>

\* main() once more, on another file
rerun_new_file ==
    /\ pc = "done"
    /\ runs < MaxRuns
    /\ csv' \in NewFiles \ {csv}
    /\ runs' = runs + 1
    /\ pc' = "connect"
    /\ conn' = "none"
    /\ brands' = <<>>
    /\ products' = <<>>
    /\ stores' = {}
    /\ customers' = {}
    /\ campaigns' = {}
    /\ lt' = NoLocals
    /\ err' = ""
    /\ returned' = <<>>
    /\ hist' = [ base |-> db,
                 prev_brands |-> IF \E n \in DOMAIN returned : returned[n] = "load_brands"
                                 THEN brands ELSE hist.prev_brands,
                 prev_db |-> IF err = "" THEN db ELSE hist.prev_db,
                 prev_complete |-> hist.prev_complete \/ err = "" ]
    /\ log' = <<>>
    /\ UNCHANGED <<batch_size, storage, frow, fout, inst, text>>

NextNewFile ==
    \/ Next
    \/ rerun_new_file

SpecNewFile == InitNewFile /\ [][NextNewFile]_vars

\* C27 (as claimed): insert-or-update.  After a complete run every product,
\* store and customer of the file has its one row with the attributes the
\* file gives it, also where an earlier run over another file had stored the
\* key with other attributes; and self.brands holds the id of each brand's row.
C27_UpsertUpdates ==
    (pc = "done" /\ err = "") =>
        \A n \in DOMAIN csv :
            /\ \E p \in RowsOf(db.products) :
                  /\ Conflicts(db.products, "sku_id", csv[n].sku_id) = {p}
                  /\ p.product_name = FirstRow("sku_id", csv[n].sku_id).product_name
                  /\ p.msrp = float(FirstRow("sku_id", csv[n].sku_id).unit_price).v
            /\ \E s \in RowsOf(db.stores) :
                  /\ Conflicts(db.stores, "store_id", csv[n].store_id) = {s}
                  /\ s.store_name = FirstRow("store_id", csv[n].store_id).store_name
                  /\ s.latitude = float(FirstRow("store_id", csv[n].store_id).latitude).v
                  /\ s.longitude = float(FirstRow("store_id", csv[n].store_id).longitude).v
            /\ csv[n].customer_id # "" =>
                  \E c \in RowsOf(db.customers) :
                      /\ Conflicts(db.customers, "external_id", csv[n].customer_id) = {c}
                      /\ c.gender = FirstRow("customer_id", csv[n].customer_id).gender
            /\ \E b \in RowsOf(db.brands) :
                  /\ Conflicts(db.brands, "brand_name", csv[n].brand_name) = {b}
                  /\ Get(brands, csv[n].brand_name) = b.brand_id

(***************************************************************************)
(* The fanout of one row on its own (specification SpecFanout): the row is *)
(* drawn from FanoutRows, the customer id mapping knows "C1" or is empty.  *)
(***************************************************************************)
InitFanout ==
    /\ frow \in FanoutRows
    /\ fout = <<>>
    /\ csv = <<Base>>
    /\ batch_size = 1
    /\ pc = "fanout"
    /\ NewLoader
    /\ db = EmptyDb
    /\ tx = EmptyDb
    /\ seq = [brands |-> 0, customers |-> 0]
    /\ runs = 0
    /\ hist = NoHist
    /\ NoText
    /\ inst = <<>>

\* the body of load_transactions' loop on frow, up to the appends
expand ==
    /\ fout = <<>>
    /\ \E customer_map \in {<<>>, [e \in {"C1"} |-> 1]} :
          fout' = <<Fanout(frow, customer_map)>>
    /\ UNCHANGED <<input, pc, conn, registry, lt, storage, runs, err, returned,
                   hist, frow, inst, log, text>>

SpecFanout == InitFanout /\ [][expand]_vars

\* C8 (as claimed): substitution nullability.  The item of a row has
\* original_request and substitution_reason both null when its substitution
\* flag is false ("0") and both non-null when it is true ("1").
C8_SubstitutionNullability ==
    (fout # <<>> /\ ~fout[1].raised) =>
        LET item == fout[1].item[1]
        IN  /\ frow.was_substituted = "0" =>
                  /\ ~item.was_substituted
                  /\ item.original_request = None
                  /\ item.substitution_reason = None
            /\ frow.was_substituted = "1" =>
                  /\ item.was_substituted
                  /\ item.original_request # None
                  /\ item.substitution_reason # None

\* C23 (as claimed): was_substituted is "0" or "1" or the row is rejected: a
\* row with any other value yields no tuple, and no item is a substitution
\* without a substitution_reason.
C23_FlagEncodings ==
    fout # <<>> =>
        /\ frow.was_substituted \notin {"0", "1"} => fout[1].raised
        /\ ~fout[1].raised =>
              LET item == fout[1].item[1]
              IN  item.was_substituted => item.substitution_reason # None

\* C24 (as claimed): the item's quantity and unit_price are the row's, and its
\* total_price is their product (prices in cents, so the product is exact).
C24_TotalPrice ==
    (fout # <<>> /\ ~fout[1].raised) =>
        LET item == fout[1].item[1]
        IN  /\ frow.quantity = "1" => item.quantity = 1
            /\ frow.quantity = "2" => item.quantity = 2
            /\ frow.unit_price = "42.00" => item.unit_price = 4200
            /\ item.total_price = item.quantity * item.unit_price

\* C25: the transaction of a row is a payday transaction exactly when the day
\* of the month of its timestamp is 15 or 30: it is for the timestamps of
\* 15 and 30 March, and it is not for 28 and 29 February and 31 March, the
\* last days of their months.
C25_Payday ==
    (fout # <<>> /\ ~fout[1].raised) =>
        LET t == fout[1].trans[1]
        IN  /\ t.is_payday <=> t.timestamp.day \in {15, 30}
            /\ t.is_payday <=>
                  frow.timestamp \in {"2024-03-15T09:00:00", "2024-03-30T14:00:00"}
            /\ frow.timestamp \in {"2023-02-28T14:00:00", "2024-02-29T09:00:00",
                                   "2024-03-31T23:00:00"} => ~t.is_payday

\* C25 witness: the fanout of a row of 31 March, and so not of a payday
C25_Witness ==
    /\ fout # <<>>
    /\ ~fout[1].raised
    /\ frow.timestamp = "2024-03-31T23:00:00"
    /\ fout[1].trans[1].timestamp.day = 31
    /\ ~fout[1].trans[1].is_payday

\* C26 (as claimed): the transaction's hour_of_day is the hour of its
\* timestamp and its day_of_week the weekday name of the timestamp's date,
\* whatever the row's own two fields say.
C26_DerivedFromTimestamp ==
    (fout # <<>> /\ ~fout[1].raised) =>
        LET t == fout[1].trans[1]
        IN  /\ t.hour_of_day = t.timestamp.hour
            /\ t.day_of_week = t.timestamp.weekday

(***************************************************************************)
(* The methods called one by one on a connected loader, in any order       *)
(* (specification SpecApi): extract_entities, load_brands, load_products,  *)
(* load_transactions.  A call that raises ends the session.                *)
(***************************************************************************)
InitApi ==
    /\ csv \in CsvFiles
    /\ batch_size = 1
    /\ pc = "api"
    /\ conn = "open"
    /\ brands = <<>>
    /\ products = <<>>
    /\ stores = {}
    /\ customers = {}
    /\ campaigns = {}
    /\ lt = NoLocals
    /\ err = ""
    /\ returned = <<>>
    /\ db = EmptyDb
    /\ tx = EmptyDb
    /\ seq = [brands |-> 0, customers |-> 0]
    /\ runs = 0
    /\ hist = NoHist
    /\ NoText
    /\ frow = Base
    /\ fout = <<>>
    /\ inst = <<>>
    /\ log = <<>>

CanCall == pc = "api" /\ Len(returned) < MaxCalls
api_extract_entities == CanCall /\ extract_entities("api", "raised")
api_load_brands == CanCall /\ load_brands("api", "raised")
api_load_products == CanCall /\ load_products("api", "raised")
api_load_transactions == CanCall /\ load_transactions("api_rows", "raised")
api_next_row == pc = "api_rows" /\ next_row("api_rows", "raised")
api_end_of_rows ==
    /\ pc \in {"api_rows", "end_of_rows"}
    /\ end_of_rows("api", "raised")

NextApi ==
    \/ api_extract_entities
    \/ api_load_brands
    \/ api_load_products
    \/ api_load_transactions
    \/ api_next_row
    \/ api_end_of_rows

SpecApi == InitApi /\ [][NextApi]_vars

\* C5 (as claimed): dependency ordering.  load_products called while a
\* product's brand has no surrogate id yet raises; no product row is ever
\* written, let alone committed, with a null brand_id.
C5_NoNullBrandId ==
    /\ \A r \in RowsOf(tx.products) : r.brand_id # NoId
    /\ \A r \in RowsOf(db.products) : r.brand_id # NoId
    /\ (returned # <<>> /\ returned[Len(returned)] = "load_products") =>
          \A n \in DOMAIN brands : brands[n].v # NoId

\* C15 (as claimed): the store reference is required.  No transaction tuple
\* is built, let alone written, for a row whose store_id has no row among the
\* stores loaded: load_transactions raises on such a row instead.
C15_StoreRequired ==
    /\ \A n \in DOMAIN lt.trans_batch :
          Conflicts(tx.stores, "store_id", lt.trans_batch[n].store_id) # {}
    /\ \A t \in RowsOf(tx.transactions) :
          Conflicts(tx.stores, "store_id", t.store_id) # {}
    /\ \A t \in RowsOf(db.transactions) :
          Conflicts(db.stores, "store_id", t.store_id) # {}

(***************************************************************************)
(* Two loader instances in load_brands on one database (specification      *)
(* SpecConc).  Each has its own connection and its own self.brands, the    *)
(* one extract_entities builds from its own file.  PostgreSQL resolves the *)
(* ON CONFLICT of a statement atomically: an instance whose statement      *)
(* meets a brand_name that another instance has written and not yet        *)
(* committed waits for that instance to commit or roll back; two instances *)
(* that wait for each other are a deadlock, which one of them gets as an   *)
(* error.  A statement sees the committed rows and the connection's own.   *)
(***************************************************************************)
Instances == {1, 2}

NoRegistry ==
    [ raised |-> FALSE, brands |-> <<>>, products |-> <<>>, stores |-> {},
      customers |-> {}, campaigns |-> {} ]

\* self.brands after extract_entities, over the files it does not raise on
ExtractedBrands ==
    { extract(NoRegistry, f, Len(f)).brands :
        f \in {g \in CsvFiles : ~extract(NoRegistry, g, Len(g)).raised} }

InitConc ==
    /\ inst \in [Instances ->
                    { [brands |-> b, n |-> 0, pc |-> "load_brands",
                       pending |-> EmptyBag, locked |-> {}] : b \in ExtractedBrands }]
    /\ db = EmptyDb
    /\ tx = EmptyDb
    /\ seq = [brands |-> 0, customers |-> 0]
    /\ csv = <<Base>>
    /\ batch_size = 1
    /\ pc = "instances"
    /\ NewLoader
    /\ runs = 0
    /\ hist = NoHist
    /\ NoText
    /\ frow = Base
    /\ fout = <<>>

\* the brand name of instance i's next statement
NextKey(i) == inst[i].brands[inst[i].n + 1].k
Running(i) == inst[i].pc = "load_brands" /\ inst[i].n < Len(inst[i].brands)
Waits(i) == Running(i) /\ \E j \in Instances \ {i} : NextKey(i) \in inst[j].locked

conc_unchanged ==
    UNCHANGED <<input, pc, conn, registry, lt, tx, runs, err, returned, hist,
                frow, fout, log, text>>

\* one iteration of load_brands' loop in instance i
conc_execute(i) ==
    /\ Running(i)
    /\ ~Waits(i)
    /\ LET me == inst[i]
           r == insert_brand(db.brands (+) me.pending, NextKey(i), seq.brands + 1)
       IN  /\ inst' = [inst EXCEPT ![i] =
                        [me EXCEPT !.brands[me.n + 1].v = r.row.brand_id,
                                   !.n = @ + 1,
                                   !.pending = r.table (-) db.brands,
                                   !.locked = @ \cup {NextKey(i)}]]
           /\ seq' = [seq EXCEPT !.brands = @ + 1]
    /\ db' = db
    /\ conc_unchanged

\* self.conn.commit() at the end of load_brands
conc_commit(i) ==
    /\ inst[i].pc = "load_brands"
    /\ inst[i].n = Len(inst[i].brands)
    /\ db' = [db EXCEPT !.brands = @ (+) inst[i].pending]
    /\ inst' = [inst EXCEPT ![i].pc = "done", ![i].pending = EmptyBag, ![i].locked = {}]
    /\ seq' = seq
    /\ conc_unchanged

\* a statement of instance i raises (a deadlock with the other instance, or
\* any other failure): run() rolls back
conc_raise(i) ==
    /\ Running(i)
    /\ inst' = [inst EXCEPT ![i].pc = "aborted", ![i].pending = EmptyBag,
                            ![i].locked = {}]
    /\ UNCHANGED <<db, seq>>
    /\ conc_unchanged

NextConc ==
    \E i \in Instances :
        \/ conc_execute(i)
        \/ conc_commit(i)
        \/ conc_raise(i)

SpecConc == InitConc /\ [][NextConc]_vars

\* C6: concurrent load_brands.  Under every interleaving the brands table
\* holds at most one row per brand name, and the instances that have finished
\* load_brands hold, for a brand name they share, the same id: the id of that
\* brand's committed row.
C6_ConcurrentBrands ==
    /\ UniqueKey(db.brands, "brand_name")
    /\ \A i \in Instances :
          inst[i].pc = "done" =>
              \A k \in Keys(inst[i].brands) :
                  \E r \in RowsOf(db.brands) :
                      r.brand_name = k /\ r.brand_id = Get(inst[i].brands, k)
    /\ \A i, j \in Instances :
          (inst[i].pc = "done" /\ inst[j].pc = "done") =>
              \A k \in Keys(inst[i].brands) \cap Keys(inst[j].brands) :
                  Get(inst[i].brands, k) = Get(inst[j].brands, k)

\* C6 witness: both instances upserted the same two new brand names, in
\* opposite orders, and both have finished: four statements, two rows
C6_Witness ==
    /\ seq.brands = 4
    /\ Count(db.brands) = 2
    /\ inst[1].pc = "done"
    /\ inst[2].pc = "done"
    /\ Keys(inst[1].brands) \cap Keys(inst[2].brands) # {}
    /\ Len(inst[1].brands) = 2
    /\ Len(inst[2].brands) = 2
    /\ inst[1].brands[1].k # inst[2].brands[1].k

(***************************************************************************)
(* update_suki_to_suqi.py: update_content (specification SpecSuki).  A     *)
(* string is a sequence of characters; the contents are up to MaxWords     *)
(* words put together.                                                     *)
(***************************************************************************)
MaxWords == 3

Words ==
    { <<"s", "u", "k", "i">>, <<"S", "u", "k", "i">>, <<"S", "U", "K", "I">>,
      <<"s", "U", "K", "I">>, <<"S", "u", "K", "i">>,
      <<"s", "u">>, <<"k", "i">>, <<" ">> }

RECURSIVE Join(_)
Join(ws) == IF ws = <<>> THEN <<>> ELSE Head(ws) \o Join(Tail(ws))

Contents == {Join(ws) : ws \in SeqsUpTo(Words, MaxWords)}

\* re.IGNORECASE compares characters by their lower case
lowerchar(c) ==
    CASE c = "S" -> "s"
      [] c = "U" -> "u"
      [] c = "K" -> "k"
      [] c = "I" -> "i"
      [] c = "Q" -> "q"
      [] OTHER -> c

\* the literal pattern matches string at position i
MatchAt(pattern, string, i, ignorecase) ==
    /\ i + Len(pattern) - 1 <= Len(string)
    /\ \A j \in DOMAIN pattern :
          IF ignorecase
          THEN lowerchar(string[i + j - 1]) = lowerchar(pattern[j])
          ELSE string[i + j - 1] = pattern[j]

\* re.sub(pattern, repl, string) from position i on: the leftmost matches,
\* one after the other
RECURSIVE re_sub(_, _, _, _)
re_sub(pattern, repl, string, i) ==
    IF i > Len(string) THEN <<>>
    ELSE IF MatchAt(pattern, string, i, FALSE)
         THEN repl \o re_sub(pattern, repl, string, i + Len(pattern))
         ELSE <<string[i]>> \o re_sub(pattern, repl, string, i + 1)

\* len(re.findall(r'suki|Suki|SUKI', string, re.IGNORECASE)) from position i on
RECURSIVE re_findall(_, _, _)
re_findall(patterns, string, i) ==
    IF i > Len(string) THEN 0
    ELSE IF \E n \in DOMAIN patterns : MatchAt(patterns[n], string, i, TRUE)
         THEN 1 + re_findall(patterns, string, i + 4)
         ELSE re_findall(patterns, string, i + 1)

\* update_content(content) with the global at changes: what it returns and
\* what it leaves in the global
update_content(c, changes) ==
    LET original_count ==
            re_findall(<< <<"s", "u", "k", "i">>, <<"S", "u", "k", "i">>,
                          <<"S", "U", "K", "I">> >>, c, 1)
        updated1 == re_sub(<<"S", "U", "K", "I">>, <<"S", "U", "Q", "I">>, c, 1)
        updated2 == re_sub(<<"S", "u", "k", "i">>, <<"S", "u", "q", "i">>, updated1, 1)
        updated3 == re_sub(<<"s", "u", "k", "i">>, <<"s", "u", "q", "i">>, updated2, 1)
    IN  IF updated3 # c
        THEN [none |-> FALSE, updated |-> updated3, changes_made |-> changes + original_count]
        ELSE [none |-> TRUE, updated |-> <<>>, changes_made |-> changes]

InitSuki ==
    /\ content \in Contents
    /\ result = [none |-> TRUE, updated |-> <<>>]
    /\ changes_made = 0
    /\ pc = "update_content"
    /\ csv = <<Base>>
    /\ batch_size = 1
    /\ NewLoader
    /\ db = EmptyDb
    /\ tx = EmptyDb
    /\ seq = [brands |-> 0, customers |-> 0]
    /\ runs = 0
    /\ hist = NoHist
    /\ frow = Base
    /\ fout = <<>>
    /\ inst = <<>>

\* process_file calls update_content on the text of a file
call_update_content ==
    /\ pc = "update_content"
    /\ LET r == update_content(content, changes_made)
       IN  /\ result' = [none |-> r.none, updated |-> r.updated]
           /\ changes_made' = r.changes_made
    /\ pc' = "returned"
    /\ UNCHANGED <<input, conn, registry, lt, storage, runs, err, returned, hist,
                   frow, fout, inst, log, content>>

SpecSuki == InitSuki /\ [][call_update_content]_vars

\* "suki" in any mix of upper and lower case starts at position i of string
OccursAt(string, i) ==
    /\ i + 3 <= Len(string)
    /\ lowerchar(string[i]) = "s"
    /\ lowerchar(string[i + 1]) = "u"
    /\ lowerchar(string[i + 2]) = "k"
    /\ lowerchar(string[i + 3]) = "i"

Occurs(string) == \E i \in DOMAIN string : OccursAt(string, i)

\* the occurrences update_content has replaced: each one changes one character
Replaced ==
    IF result.none THEN 0
    ELSE Cardinality({i \in DOMAIN content : result.updated[i] # content[i]})

\* C28 (as claimed): a string update_content returns has no occurrence of
\* "suki" in any case, a content for which it returns None had none, and
\* changes_made has grown by the number of occurrences replaced.
C28_AllVariations ==
    pc = "returned" =>
        /\ ~result.none => ~Occurs(result.updated)
        /\ result.none => ~Occurs(content)
        /\ changes_made = Replaced

====
